---- MODULE Spec2Model ----
(***************************************************************************)
(* Snippet server: the snippet store (filesystem variant and relational    *)
(* variant of index.js), the search query, the create / update / delete    *)
(* handlers and the csurf + session guards in front of them.               *)
(*                                                                         *)
(* Text values are sequences of one-character strings.  A JavaScript       *)
(* undefined (and an SQL NULL) is the distinguished value Absent.          *)
(***************************************************************************)
EXTENDS Naturals, Integers, Sequences, FiniteSets, TLC

\* ------------------------------------------------------------------ bounds
MaxClock == 2      \* the clock takes the values 1..MaxClock (milliseconds)
NumSessions == 1   \* client sessions (cookie jars) of the server

\* ------------------------------------------------------------------ text
Absent == <<"undefined">>
Empty == <<>>

IsAbsent(s) == s = Absent

\* JavaScript truthiness of a string-or-undefined value.
Truthy(s) == ~IsAbsent(s) /\ s # Empty

\* Mutant of OrElse: the left operand whatever it is.
OrElse_left(a, b) == a

\* a || b on string-or-undefined values.
OrElse(a, b) == IF Truthy(a) THEN a ELSE b

LowerChar(c) ==
  CASE c = "H" -> "h"
    [] c = "S" -> "s"
    [] c = "Q" -> "q"
    [] c = "L" -> "l"
    [] c = "T" -> "t"
    [] c = "Z" -> "z"
    [] OTHER -> c

\* String.prototype.toLowerCase / SQL LOWER
toLowerCase(s) == [i \in 1..Len(s) |-> LowerChar(s[i])]

\* s starts with p at position i (1-based)
MatchAt(s, p, i) ==
  /\ i + Len(p) - 1 <= Len(s)
  /\ \A k \in 1..Len(p) : s[i + k - 1] = p[k]

\* String.prototype.includes
includes(s, p) == \E i \in 1..(Len(s) + 1) : MatchAt(s, p, i)

\* String.prototype.endsWith
endsWith(s, p) == Len(s) >= Len(p) /\ MatchAt(s, p, Len(s) - Len(p) + 1)

\* String.prototype.replace(p, '') with a string pattern: the first occurrence
\* of p is removed, later ones stay.
replaceFirst(s, p) ==
  IF includes(s, p)
  THEN LET i == CHOOSE j \in 1..(Len(s) + 1) :
                  MatchAt(s, p, j) /\ \A k \in 1..(j - 1) : ~MatchAt(s, p, k)
       IN SubSeq(s, 1, i - 1) \o SubSeq(s, i + Len(p), Len(s))
  ELSE s

DotJson == <<".", "j", "s", "o", "n">>
plaintext == <<"p", "l", "a", "i", "n", "t", "e", "x", "t">>

\* ------------------------------------------------------------------ clock
Digits == <<"0", "1", "2", "3", "4", "5", "6", "7", "8", "9">>
Digit(n) == Digits[(n % 10) + 1]

\* Date.prototype.toISOString: YYYY-MM-DDTHH:mm:ss.sssZ.  The model's clock
\* counts milliseconds within one fixed second.
toISOString(t) ==
  <<"2", "0", "2", "4", "-", "0", "3", "-", "2", "1", "T",
    "1", "2", ":", "3", "4", ":", "5", "6", ".">>
  \o <<Digit(t \div 100), Digit(t \div 10), Digit(t), "Z">>

\* .replace(/[:.]/g, '-')
stripSeparators(s) ==
  [i \in 1..Len(s) |-> IF s[i] \in {":", "."} THEN "-" ELSE s[i]]

\* ------------------------------------------------------------------ JSON
\* Mutant of escape: nothing is escaped.
escape_none(s) == s

\* JSON.stringify of a string: quotes around it, '"' and '\' escaped.
RECURSIVE escape(_)
escape(s) ==
  IF s = <<>> THEN <<>>
  ELSE (IF Head(s) \in {"\"", "\\"} THEN <<"\\", Head(s)>> ELSE <<Head(s)>>)
       \o escape(Tail(s))

quote(s) == <<"\"">> \o escape(s) \o <<"\"">>

RECURSIVE unescape(_)
unescape(s) ==
  IF s = <<>> THEN <<>>
  ELSE IF Head(s) = "\\" /\ Len(s) >= 2
       THEN <<s[2]>> \o unescape(Tail(Tail(s)))
       ELSE <<Head(s)>> \o unescape(Tail(s))

unquote(s) == unescape(SubSeq(s, 2, Len(s) - 1))

Keys == {"language", "code", "timestamp"}

\* JSON.stringify(content, null, 2): a member whose value is undefined is left
\* out of the document.
JSONstringify(obj) ==
  [k \in {j \in Keys : ~IsAbsent(obj[j])} |-> quote(obj[k])]

\* JSON.parse, followed by member access (a missing member reads undefined).
JSONparse(doc) ==
  [k \in Keys |-> IF k \in DOMAIN doc THEN unquote(doc[k]) ELSE Absent]


\* ------------------------------------------------------------------ inputs
Variants == {"fs", "db"}
Sessions == 1..NumSessions

SQL == <<"S", "Q", "L">>
sql == <<"s", "q", "l">>
Hq == <<"H", "\\", "\"">>            \* the text H\"

Languages == {Absent, Empty, SQL}       \* req.body.language of a create
EditLanguages == {SQL, sql}             \* req.body.language of an update
Codes == {Absent, Empty, Hq}            \* req.body.snippet
Queries == {Absent, Empty, <<"h">>, <<"H">>, <<"_">>, <<"j">>}   \* req.query.q
LangFilters == {Absent, Empty, sql, SQL, plaintext}              \* req.query.lang
\* The token of a request: none, the one made from session c's secret (c), or
\* one made from the secret of a browser that is no session of this model.
NoToken == 0
Tokens == 0..(NumSessions + 1)
Passwords == {"admin123", "guess"}      \* req.body.password

\* The name each variant's create gives the record made at clock value t.
fsName(t) == stripSeparators(toISOString(t)) \o DotJson
dbName(t) == toISOString(t) \o DotJson

\* The file parameter of a request: 0 for none, t for the name the variant
\* gives (or would give) the record created at clock value t.
NoFile == 0
FileArgs == 0..MaxClock
nameOf(v, k) ==
  IF k = NoFile THEN Absent ELSE IF v = "fs" THEN fsName(k) ELSE dbName(k)

\* ------------------------------------------------------------------ state
VARIABLES
  deployed,   \* the variant that is running: {"fs"} or {"db"}
  now,        \* the server clock, in milliseconds
  files,      \* filesystem variant: the snippets directory, name -> JSON document
  rows,       \* relational variant: table snippets, filename -> row
  sess,       \* per variant and session: authenticated flag, csurf secret cookie
  res,        \* per variant: the response to the last request
  route       \* the route of the last request ("none" before the first)

vars == <<deployed, now, files, rows, sess, res, route>>

NoResponse == [status |-> 0, body |-> "none"]
Send(status, body) == [status |-> status, body |-> body]
Redirect(location) == [status |-> 302, body |-> location]



\* ------------------------------------------------------------------ guards
\* express-session: a fresh session has no authenticated flag; csurf
\* ({cookie: ...}): no secret cookie yet.
NewSession == [authenticated |-> FALSE, csrfSecret |-> FALSE]

\* The application's error-handling middleware.
errorMiddleware(code) ==
  IF code = "EBADCSRFTOKEN"
  THEN Send(403, "CSRF token validation failed")
  ELSE Send(500, "Something broke!")

\* Express's built-in handler: the error's status (500 when it has none) and
\* an error page.
finalhandler(code) ==
  IF code = "EBADCSRFTOKEN"
  THEN Send(403, "ForbiddenError: invalid csrf token")
  ELSE Send(500, code)

\* An error raised in a route goes to the error-handling middleware registered
\* after that route.  The application registers its own before every route, so
\* a route's error reaches Express's built-in handler.
errorMiddlewareAfterRoutes == FALSE
routeError(code) ==
  IF errorMiddlewareAfterRoutes THEN errorMiddleware(code) ELSE finalhandler(code)

\* csurf: on every request it makes sure the client has a secret cookie.
withSecret(s) == [s EXCEPT !.csrfSecret = TRUE]

\* csurf on a mutating verb: the token must verify against the secret cookie
\* sent with the request.  Token c is the one made from session c's secret.
csrfValid(s, c, tok) == s.csrfSecret /\ tok = c

\* Mutant of Route: an accepted token is used up, the secret is dropped.
Route_singleUse(needAuth, needCsrf, s, c, tok, store, h) ==
  IF needAuth /\ ~s.authenticated
  THEN [store |-> store, sess |-> s, res |-> Redirect("/login")]
  ELSE IF needCsrf /\ ~csrfValid(s, c, tok)
  THEN [store |-> store, sess |-> withSecret(s), res |-> routeError("EBADCSRFTOKEN")]
  ELSE [store |-> h.store,
        sess |-> IF needCsrf THEN [s EXCEPT !.csrfSecret = FALSE] ELSE s,
        res |-> h.res]

\* Mutant of Route: csrfProtection is declared before requireAuth.
Route_csrfFirst(needAuth, needCsrf, s, c, tok, store, h) ==
  IF needCsrf /\ ~csrfValid(s, c, tok)
  THEN [store |-> store, sess |-> withSecret(s), res |-> routeError("EBADCSRFTOKEN")]
  ELSE IF needAuth /\ ~s.authenticated
  THEN [store |-> store, sess |-> IF needCsrf THEN withSecret(s) ELSE s,
        res |-> Redirect("/login")]
  ELSE [store |-> h.store,
        sess |-> IF needCsrf THEN withSecret(s) ELSE s,
        res |-> h.res]

\* Mutant of Route: requireAuth lets every session through.
Route_noAuth(needAuth, needCsrf, s, c, tok, store, h) ==
  IF needCsrf /\ ~csrfValid(s, c, tok)
  THEN [store |-> store, sess |-> withSecret(s), res |-> routeError("EBADCSRFTOKEN")]
  ELSE [store |-> h.store,
        sess |-> IF needCsrf THEN withSecret(s) ELSE s,
        res |-> h.res]

\* A route declared as app.post(path, [requireAuth,] [csrfProtection,] handler):
\* requireAuth redirects an unauthenticated session, csrfProtection raises
\* EBADCSRFTOKEN, and only then does the handler (outcome h) run.
Route(needAuth, needCsrf, s, c, tok, store, h) ==
  IF needAuth /\ ~s.authenticated
  THEN [store |-> store, sess |-> s, res |-> Redirect("/login")]
  ELSE IF needCsrf /\ ~csrfValid(s, c, tok)
  THEN [store |-> store, sess |-> withSecret(s), res |-> routeError("EBADCSRFTOKEN")]
  ELSE [store |-> h.store,
        sess |-> IF needCsrf THEN withSecret(s) ELSE s,
        res |-> h.res]

\* ------------------------------------------------------------------ filesystem variant
\* Mutant of writeFileSync: members the new document lacks are kept from the
\* document the file held.
writeFileSync_merged(dir, name, doc) ==
  [f \in DOMAIN dir \cup {name} |->
     IF f # name THEN dir[f]
     ELSE IF name \in DOMAIN dir THEN doc @@ dir[name] ELSE doc]

\* fs.writeFileSync: creates the file or replaces its content.
writeFileSync(dir, name, doc) ==
  [f \in DOMAIN dir \cup {name} |-> IF f = name THEN doc ELSE dir[f]]

\* Mutant of unlinkSync: the whole directory is emptied.
unlinkSync_all(dir, name) == << >>

\* fs.unlinkSync
unlinkSync(dir, name) == [f \in DOMAIN dir \ {name} |-> dir[f]]

\* fs.existsSync
existsSync(dir, name) == name \in DOMAIN dir

fsSubmitHandler(dir, t, lang, code) ==
  LET timestamp == stripSeparators(toISOString(t))
      filename == timestamp \o DotJson
      content == [language |-> OrElse(lang, plaintext), code |-> code,
                  timestamp |-> timestamp]
  IN [store |-> writeFileSync(dir, filename, JSONstringify(content)),
      res |-> Send(200, "Snippet saved!")]

\* Mutant of fsDeleteHandler: no existsSync check before the unlink.
fsDeleteHandler_noExistsCheck(dir, queryFile) ==
  IF ~Truthy(queryFile)
  THEN [store |-> dir, res |-> Send(400, "No file specified")]
  ELSE [store |-> unlinkSync(dir, queryFile), res |-> Send(200, "OK")]

fsDeleteHandler(dir, queryFile) ==
  IF ~Truthy(queryFile)
  THEN [store |-> dir, res |-> Send(400, "No file specified")]
  ELSE IF ~existsSync(dir, queryFile)
  THEN [store |-> dir, res |-> Send(404, "File not found")]
  ELSE [store |-> unlinkSync(dir, queryFile), res |-> Send(200, "OK")]

\* Mutant of fsSaveEditHandler: the timestamp member keeps the '.json' suffix.
fsSaveEditHandler_keepsSuffix(dir, filename, lang, code) ==
  IF ~Truthy(filename)
  THEN [store |-> dir, res |-> Send(400, "Missing filename")]
  ELSE LET content == [language |-> lang, code |-> code, timestamp |-> filename]
       IN [store |-> writeFileSync(dir, filename, JSONstringify(content)),
           res |-> Redirect("/admin")]

fsSaveEditHandler(dir, filename, lang, code) ==
  IF ~Truthy(filename)
  THEN [store |-> dir, res |-> Send(400, "Missing filename")]
  ELSE LET content == [language |-> lang, code |-> code,
                       timestamp |-> replaceFirst(filename, DotJson)]
       IN [store |-> writeFileSync(dir, filename, JSONstringify(content)),
           res |-> Redirect("/admin")]

\* Mutant of fsPostSubmit: the route also declares requireAuth.
fsPostSubmit_requiresAuth(dir, s, c, tok, t, lang, code) ==
  Route(TRUE, TRUE, s, c, tok, dir, fsSubmitHandler(dir, t, lang, code))

fsPostSubmit(dir, s, c, tok, t, lang, code) ==
  Route(FALSE, TRUE, s, c, tok, dir, fsSubmitHandler(dir, t, lang, code))

fsPostDelete(dir, s, c, tok, queryFile) ==
  Route(TRUE, TRUE, s, c, tok, dir, fsDeleteHandler(dir, queryFile))

fsPostSaveEdit(dir, s, c, tok, filename, lang, code) ==
  Route(TRUE, FALSE, s, c, tok, dir, fsSaveEditHandler(dir, filename, lang, code))

\* ------------------------------------------------------------------ relational variant
\* The table's primary key: INSERT of an existing filename is an error.
uniqueViolation(table, filename) == filename \in DOMAIN table

dbSubmitHandler(table, t, lang, code) ==
  LET timestamp == toISOString(t)
      filename == timestamp \o DotJson
      row == [language |-> OrElse(lang, plaintext), code |-> code,
              timestamp |-> timestamp]
  IN IF uniqueViolation(table, filename)
     THEN [store |-> table, res |-> Send(500, "Failed to save snippet")]
     ELSE [store |-> [f \in DOMAIN table \cup {filename} |->
                        IF f = filename THEN row ELSE table[f]],
           res |-> Send(200, "Snippet saved!")]

\* Mutant of dbDeleteHandler: the DELETE's row count is not looked at.
dbDeleteHandler_noRowCount(table, bodyFile) ==
  IF ~Truthy(bodyFile)
  THEN [store |-> table, res |-> Send(400, "No file specified")]
  ELSE [store |-> [f \in DOMAIN table \ {bodyFile} |-> table[f]],
        res |-> Send(200, "File deleted successfully")]

dbDeleteHandler(table, bodyFile) ==
  IF ~Truthy(bodyFile)
  THEN [store |-> table, res |-> Send(400, "No file specified")]
  ELSE IF bodyFile \notin DOMAIN table
  THEN [store |-> table, res |-> Send(404, "File not found")]
  ELSE [store |-> [f \in DOMAIN table \ {bodyFile} |-> table[f]],
        res |-> Send(200, "File deleted successfully")]

\* Mutant of dbEditHandler: the filename is not checked before the UPDATE.
dbEditHandler_noFilenameCheck(table, queryFile, lang, code) ==
  [store |-> [f \in DOMAIN table |->
                IF f = queryFile
                THEN [table[f] EXCEPT !.language = lang, !.code = code]
                ELSE table[f]],
   res |-> Redirect("/admin")]

\* UPDATE ... WHERE filename = $3: zero rows updated is no error.
dbEditHandler(table, queryFile, lang, code) ==
  IF ~Truthy(queryFile)
  THEN [store |-> table, res |-> Send(400, "No file specified")]
  ELSE [store |-> [f \in DOMAIN table |->
                     IF f = queryFile
                     THEN [table[f] EXCEPT !.language = lang, !.code = code]
                     ELSE table[f]],
        res |-> Redirect("/admin")]

dbPostSubmit(table, s, c, tok, t, lang, code) ==
  Route(FALSE, TRUE, s, c, tok, table, dbSubmitHandler(table, t, lang, code))

dbPostDelete(table, s, c, tok, bodyFile) ==
  Route(TRUE, TRUE, s, c, tok, table, dbDeleteHandler(table, bodyFile))

dbPostEdit(table, s, c, tok, queryFile, lang, code) ==
  Route(TRUE, TRUE, s, c, tok, table, dbEditHandler(table, queryFile, lang, code))


\* ------------------------------------------------------------------ listing and search
\* The order localeCompare gives the model's characters: punctuation, digits,
\* letters (lower case before upper case).
Collation ==
  <<"_", "-", ":", ".", "\"", "\\",
    "0", "1", "2", "3", "4", "5", "6", "7", "8", "9",
    "a", "e", "h", "H", "i", "j", "l", "L", "n", "o", "p", "q", "Q",
    "s", "S", "t", "T", "x", "z", "Z">>
Rank(c) == CHOOSE i \in 1..Len(Collation) : Collation[i] = c

\* Mutant of localeCompare: the sign is inverted where the two differ.
localeCompare_inverted(a, b) ==
  LET common == IF Len(a) < Len(b) THEN Len(a) ELSE Len(b)
      diff == {i \in 1..common : a[i] # b[i]}
  IN IF diff = {}
     THEN (IF Len(a) < Len(b) THEN -1 ELSE IF Len(a) > Len(b) THEN 1 ELSE 0)
     ELSE LET i == CHOOSE j \in diff : \A k \in diff : j <= k
          IN IF Rank(a[i]) < Rank(b[i]) THEN 1 ELSE -1

\* a.localeCompare(b): negative, zero or positive; decided by the first
\* position where the two differ, else by length.
localeCompare(a, b) ==
  LET common == IF Len(a) < Len(b) THEN Len(a) ELSE Len(b)
      diff == {i \in 1..common : a[i] # b[i]}
  IN IF diff = {}
     THEN (IF Len(a) < Len(b) THEN -1 ELSE IF Len(a) > Len(b) THEN 1 ELSE 0)
     ELSE LET i == CHOOSE j \in diff : \A k \in diff : j <= k
          IN IF Rank(a[i]) < Rank(b[i]) THEN -1 ELSE 1

\* .sort((a, b) => b.timestamp.localeCompare(a.timestamp)) and
\* ORDER BY timestamp DESC: the records of S, latest timestamp first.
RECURSIVE sortByTimestampDesc(_)
sortByTimestampDesc(S) ==
  IF S = {} THEN <<>>
  ELSE LET m == CHOOSE x \in S :
                  \A y \in S : localeCompare(y.timestamp, x.timestamp) <= 0
       IN <<m>> \o sortByTimestampDesc(S \ {m})

getAllSnippets(dir) ==
  sortByTimestampDesc(
    {[filename |-> f,
      language |-> OrElse(JSONparse(dir[f]).language, plaintext),
      content |-> JSONparse(dir[f]).code,
      timestamp |-> replaceFirst(f, DotJson)] :
       f \in {g \in DOMAIN dir : endsWith(g, DotJson)}})

\* req.query.q?.toLowerCase() || ''
queryOf(q) == IF IsAbsent(q) THEN Empty ELSE toLowerCase(q)
\* req.query.lang?.toLowerCase()
languageOf(lang) == IF IsAbsent(lang) THEN Absent ELSE toLowerCase(lang)

Json(list) == [status |-> 200, body |-> "json", list |-> list]

\* GET /search, filesystem variant.  snippet.content.toLowerCase() throws a
\* TypeError when the stored document has no code member.
fsSearch(dir, q, lang) ==
  LET query == queryOf(q)
      language == languageOf(lang)
      all == getAllSnippets(dir)
      matches(snippet) ==
        /\ \/ query = Empty
           \/ includes(toLowerCase(snippet.content), query)
           \/ includes(toLowerCase(snippet.filename), query)
        /\ \/ ~Truthy(language)
           \/ toLowerCase(snippet.language) = language
  IN IF query # Empty /\ \E i \in 1..Len(all) : IsAbsent(all[i].content)
     THEN routeError("TypeError")
     ELSE Json(SelectSeq(all, matches))

\* SQL: s LIKE p, with % (any run of characters), _ (any one character) and
\* the escape character \.
\* likeFrom(s, p, i, j): s from position i matches p from position j.
RECURSIVE likeFrom(_, _, _, _)
likeFrom(s, p, i, j) ==
  IF j > Len(p) THEN i > Len(s)
  ELSE IF p[j] = "%"
  THEN likeFrom(s, p, i, j + 1) \/ (i <= Len(s) /\ likeFrom(s, p, i + 1, j))
  ELSE IF p[j] = "\\" /\ j < Len(p)
  THEN i <= Len(s) /\ s[i] = p[j + 1] /\ likeFrom(s, p, i + 1, j + 2)
  ELSE IF p[j] = "_"
  THEN i <= Len(s) /\ likeFrom(s, p, i + 1, j + 1)
  ELSE i <= Len(s) /\ s[i] = p[j] /\ likeFrom(s, p, i + 1, j + 1)

like(s, p) == likeFrom(s, p, 1, 1)

\* GET /search, relational variant.  A comparison with NULL is not true.
dbSearch(table, q, lang) ==
  LET query == queryOf(q)
      language == languageOf(lang)
      pattern == <<"%">> \o query \o <<"%">>
      selected(f) ==
        /\ Truthy(query) =>
             \/ ~IsAbsent(table[f].code) /\ like(toLowerCase(table[f].code), pattern)
             \/ like(toLowerCase(f), pattern)
        /\ Truthy(language) =>
             ~IsAbsent(table[f].language) /\ toLowerCase(table[f].language) = language
  IN Json(sortByTimestampDesc(
       {[filename |-> f, language |-> table[f].language, code |-> table[f].code,
         timestamp |-> table[f].timestamp] : f \in {g \in DOMAIN table : selected(g)}}))

\* ------------------------------------------------------------------ the admin page's script
\* The values of the page's sort select.
SortKeys == {"date-desc", "date-asc", "lang-asc", "lang-desc"}

\* The comparator updateList passes to Array.prototype.sort.
compareSnippets(sort, a, b) ==
  CASE sort = "date-desc" -> localeCompare(b.timestamp, a.timestamp)
    [] sort = "date-asc" -> localeCompare(a.timestamp, b.timestamp)
    [] sort = "lang-asc" -> localeCompare(a.language, b.language)
    [] sort = "lang-desc" -> localeCompare(b.language, a.language)
    [] OTHER -> 0

\* Mutant of insertSorted: x goes before the elements it compares equal to.
insertSorted_beforeEqual(S, x, sort) ==
  LET k == Cardinality({i \in 1..Len(S) : compareSnippets(sort, S[i], x) < 0})
  IN SubSeq(S, 1, k) \o <<x>> \o SubSeq(S, k + 1, Len(S))

\* One step of the sort: x is placed after every element of the sorted S that
\* does not compare greater than it.
insertSorted(S, x, sort) ==
  LET k == Cardinality({i \in 1..Len(S) : compareSnippets(sort, S[i], x) <= 0})
  IN SubSeq(S, 1, k) \o <<x>> \o SubSeq(S, k + 1, Len(S))

\* Array.prototype.sort (stable since ECMAScript 2019) of the first n
\* elements of list.
RECURSIVE sortPrefix(_, _, _)
sortPrefix(list, n, sort) ==
  IF n = 0 THEN <<>>
  ELSE insertSorted(sortPrefix(list, n - 1, sort), list[n], sort)

\* snippets.sort((a, b) => ...) in updateList.
sortSnippets(list, sort) == sortPrefix(list, Len(list), sort)

\* ------------------------------------------------------------------ login
adminPassword == "admin123"

\* Mutant of postLogin: the comparison's result is ignored.
postLogin_anyPassword(s, c, tok, password) ==
  IF ~csrfValid(s, c, tok)
  THEN [sess |-> withSecret(s), res |-> routeError("EBADCSRFTOKEN")]
  ELSE [sess |-> [withSecret(s) EXCEPT !.authenticated = TRUE],
        res |-> Redirect("/admin")]

\* POST /login: bcrypt.compare(password, hash of the admin password).
postLogin(s, c, tok, password) ==
  IF ~csrfValid(s, c, tok)
  THEN [sess |-> withSecret(s), res |-> routeError("EBADCSRFTOKEN")]
  ELSE IF password = adminPassword
  THEN [sess |-> [withSecret(s) EXCEPT !.authenticated = TRUE],
        res |-> Redirect("/admin")]
  ELSE [sess |-> withSecret(s), res |-> Redirect("/login")]

\* GET /: csurf sets the secret cookie, the page carries req.csrfToken().
getForm(s) == [sess |-> withSecret(s), res |-> Send(200, "form")]

\* ------------------------------------------------------------------ response bodies
\* The body sent by a successful POST /submit: the page fragment, or for the
\* relational variant when the Accept header names application/json the
\* JSON document.  ("U+2705" stands for the one character before the text.)
savedHtml ==
  <<"U+2705", " ", "S", "n", "i", "p", "p", "e", "t", " ", "s", "a",
    "v", "e", "d", "!", " ", "<", "a", " ", "h", "r", "e", "f", "=",
    "\"", "/", "\"", ">", "B", "a", "c", "k", " ", "t", "o", " ",
    "f", "o", "r", "m", "<", "/", "a", ">">>
savedJson ==
  <<"{", "\"", "s", "u", "c", "c", "e", "s", "s", "\"", ":", "t",
    "r", "u", "e", ",", "\"", "m", "e", "s", "s", "a", "g", "e",
    "\"", ":", "\"", "S", "n", "i", "p", "p", "e", "t", " ", "s",
    "a", "v", "e", "d", "!", "\"", "}">>
submitBody(v, acceptsJson) ==
  IF v = "db" /\ acceptsJson THEN savedJson ELSE savedHtml

\* ------------------------------------------------------------------ admin pages
\* A route declared as app.get(path, [requireAuth,] [csrfProtection,] handler):
\* requireAuth redirects an unauthenticated session; csurf verifies nothing on
\* GET, it only makes sure the client has a secret cookie.
GetRoute(needAuth, hasCsrf, s, store, page) ==
  IF needAuth /\ ~s.authenticated
  THEN [store |-> store, sess |-> s, res |-> Redirect("/login")]
  ELSE [store |-> store, sess |-> IF hasCsrf THEN withSecret(s) ELSE s, res |-> page]

\* A page built from records of the store.
Page(body, list) == [status |-> 200, body |-> body, list |-> list]

\* SELECT * FROM snippets ORDER BY timestamp DESC
dbGetAllSnippets(table) ==
  sortByTimestampDesc(
    {[filename |-> f, language |-> table[f].language, code |-> table[f].code,
      timestamp |-> table[f].timestamp] : f \in DOMAIN table})

\* GET /admin: the listing of every snippet.
fsAdminPage(dir) == Page("admin", getAllSnippets(dir))
dbAdminPage(table) == Page("admin", dbGetAllSnippets(table))

\* GET /edit?file=: the edit form of one snippet.
fsEditPage(dir, queryFile) ==
  IF ~Truthy(queryFile) THEN Send(400, "No file specified")
  ELSE IF ~existsSync(dir, queryFile) THEN Send(404, "File not found")
  ELSE Page("edit", <<[filename |-> queryFile,
                       language |-> OrElse(JSONparse(dir[queryFile]).language, plaintext),
                       code |-> JSONparse(dir[queryFile]).code]>>)

dbEditPage(table, queryFile) ==
  IF ~Truthy(queryFile) THEN Send(400, "No file specified")
  ELSE IF queryFile \notin DOMAIN table THEN Send(404, "File not found")
  ELSE Page("edit", <<[filename |-> queryFile, language |-> table[queryFile].language,
                       code |-> table[queryFile].code]>>)

fsGetAdmin(dir, s) == GetRoute(TRUE, TRUE, s, dir, fsAdminPage(dir))
dbGetAdmin(table, s) == GetRoute(TRUE, TRUE, s, table, dbAdminPage(table))
fsGetEdit(dir, s, queryFile) == GetRoute(TRUE, FALSE, s, dir, fsEditPage(dir, queryFile))
dbGetEdit(table, s, queryFile) == GetRoute(TRUE, TRUE, s, table, dbEditPage(table, queryFile))

\* ------------------------------------------------------------------ the system
Init ==
  /\ deployed \in {{"fs"}, {"db"}}
  /\ now = 1
  /\ files = << >>
  /\ rows = << >>
  /\ sess = [v \in Variants |-> [c \in Sessions |-> NewSession]]
  /\ res = [v \in Variants |-> NoResponse]
  /\ route = "none"

\* Each deployed variant answers the request of session c: F is the filesystem
\* variant's outcome, D the relational variant's.
Answer(c, F, D) ==
  /\ files' = IF "fs" \in deployed THEN F.store ELSE files
  /\ rows' = IF "db" \in deployed THEN D.store ELSE rows
  /\ sess' = [v \in Variants |->
               IF v \in deployed
               THEN [sess[v] EXCEPT ![c] = IF v = "fs" THEN F.sess ELSE D.sess]
               ELSE sess[v]]
  /\ res' = [v \in Variants |->
              IF v \in deployed THEN (IF v = "fs" THEN F.res ELSE D.res) ELSE res[v]]
  /\ UNCHANGED <<deployed, now>>

Tick ==
  /\ now < MaxClock
  /\ now' = now + 1
  /\ UNCHANGED <<deployed, files, rows, sess, res, route>>

GetForm(c) ==
  /\ Answer(c, [store |-> files] @@ getForm(sess["fs"][c]),
               [store |-> rows] @@ getForm(sess["db"][c]))
  /\ route' = "GET /"

Login(c, tok, password) ==
  /\ Answer(c, [store |-> files] @@ postLogin(sess["fs"][c], c, tok, password),
               [store |-> rows] @@ postLogin(sess["db"][c], c, tok, password))
  /\ route' = "POST /login"

\* The outcome of each variant's create request in the current state.
fsCreate(c, tok, lang, code) ==
  fsPostSubmit(files, sess["fs"][c], c, tok, now, lang, code)
dbCreate(c, tok, lang, code) ==
  dbPostSubmit(rows, sess["db"][c], c, tok, now, lang, code)

Submit(c, tok, lang, code) ==
  /\ Answer(c, fsCreate(c, tok, lang, code), dbCreate(c, tok, lang, code))
  /\ route' = "POST /submit"

\* The update request of each variant: POST /save-edit with body.filename, or
\* POST /edit?file=.
fsUpdate(c, tok, file, lang, code) ==
  fsPostSaveEdit(files, sess["fs"][c], c, tok, nameOf("fs", file), lang, code)
dbUpdate(c, tok, file, lang, code) ==
  dbPostEdit(rows, sess["db"][c], c, tok, nameOf("db", file), lang, code)

Update(c, tok, file, lang, code) ==
  /\ Answer(c, fsUpdate(c, tok, file, lang, code), dbUpdate(c, tok, file, lang, code))
  /\ route' = "POST /save-edit, POST /edit"

\* POST /delete with the file in the query string, in the body, or both.
fsDelete(c, tok, queryFile) ==
  fsPostDelete(files, sess["fs"][c], c, tok, nameOf("fs", queryFile))
dbDelete(c, tok, bodyFile) ==
  dbPostDelete(rows, sess["db"][c], c, tok, nameOf("db", bodyFile))

Delete(c, tok, queryFile, bodyFile) ==
  /\ Answer(c, fsDelete(c, tok, queryFile), dbDelete(c, tok, bodyFile))
  /\ route' = "POST /delete"

\* GET /search; res keeps the status and kind of the answer, the list itself
\* is fsSearch / dbSearch of the store.
headOf(r) == [status |-> r.status, body |-> r.body]
headed(o) == [o EXCEPT !.res = headOf(o.res)]

\* The outcome of each variant's admin listing and edit page in the current state.
fsAdmin(c) == fsGetAdmin(files, sess["fs"][c])
dbAdmin(c) == dbGetAdmin(rows, sess["db"][c])
fsEdit(c, file) == fsGetEdit(files, sess["fs"][c], nameOf("fs", file))
dbEdit(c, file) == dbGetEdit(rows, sess["db"][c], nameOf("db", file))

GetAdmin(c) ==
  /\ Answer(c, headed(fsAdmin(c)), headed(dbAdmin(c)))
  /\ route' = "GET /admin"

GetEdit(c, file) ==
  /\ Answer(c, headed(fsEdit(c, file)), headed(dbEdit(c, file)))
  /\ route' = "GET /edit"

Search(c, q, lang) ==
  /\ Answer(c, [store |-> files, sess |-> sess["fs"][c],
                res |-> headOf(fsSearch(files, q, lang))],
               [store |-> rows, sess |-> sess["db"][c],
                res |-> headOf(dbSearch(rows, q, lang))])
  /\ route' = "GET /search"

Next ==
  \/ Tick
  \/ \E c \in Sessions : GetForm(c)
  \/ \E c \in Sessions, tok \in Tokens, password \in Passwords : Login(c, tok, password)
  \/ \E c \in Sessions, tok \in Tokens, lang \in Languages, code \in Codes :
       Submit(c, tok, lang, code)
  \/ \E c \in Sessions, tok \in Tokens, file \in FileArgs, lang \in EditLanguages,
        code \in Codes : Update(c, tok, file, lang, code)
  \/ \E c \in Sessions, tok \in Tokens, queryFile \in FileArgs, bodyFile \in FileArgs :
       /\ queryFile = bodyFile \/ NoFile \in {queryFile, bodyFile}
       /\ Delete(c, tok, queryFile, bodyFile)
  \/ \E c \in Sessions, q \in Queries, lang \in LangFilters : Search(c, q, lang)
  \/ \E c \in Sessions : GetAdmin(c)
  \/ \E c \in Sessions, file \in FileArgs : GetEdit(c, file)

Spec == Init /\ [][Next]_vars

\* ------------------------------------------------------------------ a wider environment
\* The mutating routes when a storage call can fail and an update can name a
\* file that no create generated.

\* What a write that fails part-way leaves in the file: the start of the
\* document, which is no JSON document.
Truncated == [truncated |-> << >>]
isDocument(doc) == DOMAIN doc \subseteq Keys

\* Where fs.writeFileSync fails: opening the file (nothing is changed), or
\* writing to the file it has opened and truncated.
Faults == {"open", "write"}
writeFileSyncFailing(dir, name, fault) ==
  IF fault = "open" THEN dir ELSE writeFileSync(dir, name, Truncated)

\* POST /submit, filesystem variant: the exception of writeFileSync leaves
\* the handler and Express answers it.
fsSubmitHandlerFailing(dir, t, lang, code, fault) ==
  LET timestamp == stripSeparators(toISOString(t))
      filename == timestamp \o DotJson
  IN [store |-> writeFileSyncFailing(dir, filename, fault),
      res |-> routeError(IF fault = "open" THEN "EACCES" ELSE "ENOSPC")]

\* POST /delete, filesystem variant: the exception of unlinkSync is caught.
fsDeleteHandlerFailing(dir, queryFile) ==
  IF ~Truthy(queryFile)
  THEN [store |-> dir, res |-> Send(400, "No file specified")]
  ELSE IF ~existsSync(dir, queryFile)
  THEN [store |-> dir, res |-> Send(404, "File not found")]
  ELSE [store |-> dir, res |-> Send(500, "Failed to delete file")]

\* Relational variant: the INSERT or DELETE statement is rejected, the catch
\* block answers.
dbSubmitHandlerFailing(table, t, lang, code) ==
  [store |-> table, res |-> Send(500, "Failed to save snippet")]
dbDeleteHandlerFailing(table, bodyFile) ==
  IF ~Truthy(bodyFile)
  THEN [store |-> table, res |-> Send(400, "No file specified")]
  ELSE [store |-> table, res |-> Send(500, "err.message")]

SubmitFailing(c, tok, lang, code, fault) ==
  /\ Answer(c, Route(FALSE, TRUE, sess["fs"][c], c, tok, files,
                     fsSubmitHandlerFailing(files, now, lang, code, fault)),
               Route(FALSE, TRUE, sess["db"][c], c, tok, rows,
                     dbSubmitHandlerFailing(rows, now, lang, code)))
  /\ route' = "POST /submit"

DeleteFailing(c, tok, file) ==
  /\ Answer(c, Route(TRUE, TRUE, sess["fs"][c], c, tok, files,
                     fsDeleteHandlerFailing(files, nameOf("fs", file))),
               Route(TRUE, TRUE, sess["db"][c], c, tok, rows,
                     dbDeleteHandlerFailing(rows, nameOf("db", file))))
  /\ route' = "POST /delete"

\* A filename as a client may send it: '.json' also inside the name.
OtherNames == {<<"a", ".", "j", "s", "o", "n", ".", "1", ".", "j", "s", "o", "n">>}

UpdateNamed(c, tok, filename, lang, code) ==
  /\ Answer(c, fsPostSaveEdit(files, sess["fs"][c], c, tok, filename, lang, code),
               dbPostEdit(rows, sess["db"][c], c, tok, filename, lang, code))
  /\ route' = "POST /save-edit, POST /edit"

NextWide ==
  \/ Tick
  \/ \E c \in Sessions : GetForm(c)
  \/ \E c \in Sessions, tok \in Tokens, password \in Passwords : Login(c, tok, password)
  \/ \E c \in Sessions, tok \in Tokens, lang \in Languages, code \in Codes :
       Submit(c, tok, lang, code)
  \/ \E c \in Sessions, tok \in Tokens, file \in FileArgs : Delete(c, tok, file, file)
  \/ \E c \in Sessions, tok \in Tokens, lang \in Languages, code \in Codes,
        fault \in Faults : SubmitFailing(c, tok, lang, code, fault)
  \/ \E c \in Sessions, tok \in Tokens, file \in FileArgs : DeleteFailing(c, tok, file)
  \/ \E c \in Sessions, tok \in Tokens, filename \in OtherNames, lang \in EditLanguages,
        code \in Codes : UpdateNamed(c, tok, filename, lang, code)

SpecWide == Init /\ [][NextWide]_vars


\* ------------------------------------------------------------------ views used by the properties
\* The records a store holds, as (filename, language, code, timestamp).
fsRecords(dir) ==
  {[filename |-> f, language |-> JSONparse(dir[f]).language,
    code |-> JSONparse(dir[f]).code, timestamp |-> JSONparse(dir[f]).timestamp] :
     f \in DOMAIN dir}
dbRecords(table) ==
  {[filename |-> f, language |-> table[f].language, code |-> table[f].code,
    timestamp |-> table[f].timestamp] : f \in DOMAIN table}
Records(v) == IF v = "fs" THEN fsRecords(files) ELSE dbRecords(rows)
Filenames(v) == IF v = "fs" THEN DOMAIN files ELSE DOMAIN rows

\* The request passes the guards of a route that needs session and token.
Authorized(v, c, tok) ==
  sess[v][c].authenticated /\ csrfValid(sess[v][c], c, tok)

\* C1: a create, update or delete request whose token is missing or does not
\* match the session is rejected and leaves the records as they were.
C1_TokenGate ==
  [][\A c \in Sessions, tok \in Tokens :
       (\A v \in deployed : ~csrfValid(sess[v][c], c, tok)) =>
         ( ( \/ \E lang \in Languages, code \in Codes : Submit(c, tok, lang, code)
             \/ \E file \in FileArgs, lang \in EditLanguages, code \in Codes :
                  Update(c, tok, file, lang, code)
             \/ \E queryFile \in FileArgs, bodyFile \in FileArgs :
                  Delete(c, tok, queryFile, bodyFile) )
           => /\ files' = files
              /\ rows' = rows
              /\ \A v \in deployed :
                   res'[v].status # 200 /\ res'[v] # Redirect("/admin") )]_vars

\* C2: a create whose generated filename is already stored does not replace
\* that record: the stored record is unchanged and the create is not answered
\* as a plain success under the same name.
C2_CollisionDetected ==
  [][\A c \in Sessions, tok \in Tokens, lang \in Languages, code \in Codes :
       Submit(c, tok, lang, code) =>
         \A v \in deployed :
           (csrfValid(sess[v][c], c, tok) /\ nameOf(v, now) \in Filenames(v)) =>
             /\ files' = files
             /\ rows' = rows
             /\ res'[v].status # 200]_vars

\* C3: an update of a filename that is not stored is answered 404, creates no
\* record and changes none.
C3_UpdateMissingIsNotFound ==
  [][\A c \in Sessions, tok \in Tokens, file \in FileArgs \ {NoFile},
        lang \in EditLanguages, code \in Codes :
       Update(c, tok, file, lang, code) =>
         \A v \in deployed :
           (Authorized(v, c, tok) /\ nameOf(v, file) \notin Filenames(v)) =>
             /\ res'[v].status = 404
             /\ files' = files
             /\ rows' = rows]_vars

\* The timestamp a read of record f gives.
fsTimestamp(dir, f) == JSONparse(dir[f]).timestamp
fsListedTimestamp(dir, f) ==
  LET all == getAllSnippets(dir)
  IN {all[i].timestamp : i \in {j \in 1..Len(all) : all[j].filename = f}}

fsRead(dir, f) ==
  LET all == getAllSnippets(dir)
  IN {[language |-> all[i].language, code |-> all[i].content,
       timestamp |-> JSONparse(dir[f]).timestamp] :
        i \in {j \in 1..Len(all) : all[j].filename = f}}
dbRead(table, f) ==
  LET all == dbSearch(table, Absent, Absent).list
  IN {[language |-> all[i].language, code |-> all[i].code,
       timestamp |-> all[i].timestamp] :
        i \in {j \in 1..Len(all) : all[j].filename = f}}

\* The record created at the current instant is read back from the store as
\* language lang and code code, under a filename that contains the creation
\* timestamp.
fsReadsBack(dir, lang, code) ==
  LET f == fsName(now)
  IN /\ f \in DOMAIN dir
     /\ fsRead(dir, f) =
          {[language |-> lang, code |-> code,
            timestamp |-> stripSeparators(toISOString(now))]}
     /\ includes(f, stripSeparators(toISOString(now)))
dbReadsBack(table, lang, code) ==
  LET f == dbName(now)
  IN /\ f \in DOMAIN table
     /\ dbRead(table, f) =
          {[language |-> lang, code |-> code, timestamp |-> toISOString(now)]}
     /\ includes(f, toISOString(now))

\* C7 as claimed: a create answered with success, of any submitted language
\* and code, is read back with exactly that language and that code, under a
\* filename containing the creation timestamp.
C7_RoundTripAnyLanguage ==
  [][\A c \in Sessions, tok \in Tokens, lang \in Languages \ {Absent}, code \in Codes :
       Submit(c, tok, lang, code) =>
         /\ ("fs" \in deployed /\ res'["fs"].status = 200) =>
              fsReadsBack(files', lang, code)
         /\ ("db" \in deployed /\ res'["db"].status = 200) =>
              dbReadsBack(rows', lang, code)]_vars

\* C7 as amended: in every reachable state, a create request that is answered
\* with success is read back with the submitted code unchanged and with the
\* submitted language, or plaintext when the submitted language is empty or
\* absent, under a filename containing the creation timestamp.
C7_RoundTrip ==
  \A c \in Sessions, tok \in Tokens, lang \in Languages, code \in Codes :
    /\ "fs" \in deployed =>
         LET o == fsCreate(c, tok, lang, code)
         IN o.res.status = 200 => fsReadsBack(o.store, OrElse(lang, plaintext), code)
    /\ "db" \in deployed =>
         LET o == dbCreate(c, tok, lang, code)
         IN o.res.status = 200 => dbReadsBack(o.store, OrElse(lang, plaintext), code)

\* A create has stored the text H\" with language SQL, and it reads back so.
C7_Witness ==
  \/ /\ res["fs"] = Send(200, "Snippet saved!")
     /\ \E f \in DOMAIN files :
          \E r \in fsRead(files, f) : r.code = Hq /\ r.language = SQL
  \/ /\ res["db"] = Send(200, "Snippet saved!")
     /\ \E f \in DOMAIN rows :
          \E r \in dbRead(rows, f) : r.code = Hq /\ r.language = SQL

\* C8: a create answered with success adds exactly one record: one more
\* record is stored and every record stored before is unchanged.
C8_CreateAddsExactlyOne ==
  [][\A c \in Sessions, tok \in Tokens, lang \in Languages, code \in Codes :
       Submit(c, tok, lang, code) =>
         \A v \in deployed :
           res'[v].status = 200 =>
             /\ Cardinality(DOMAIN files') + Cardinality(DOMAIN rows')
                  = Cardinality(DOMAIN files) + Cardinality(DOMAIN rows) + 1
             /\ \A g \in DOMAIN files : g \in DOMAIN files' /\ files'[g] = files[g]
             /\ \A g \in DOMAIN rows : g \in DOMAIN rows' /\ rows'[g] = rows[g]]_vars


\* The relational table that holds the records of a snippets directory.
tableOf(dir) ==
  [f \in DOMAIN dir |->
     [language |-> JSONparse(dir[f]).language, code |-> JSONparse(dir[f]).code,
      timestamp |-> JSONparse(dir[f]).timestamp]]

\* The two variants answer alike: same status, same records held afterwards.
SameOutcome(F, D) ==
  F.res.status = D.res.status /\ fsRecords(F.store) = dbRecords(D.store)

\* The filenames of a search answer, in order (none when the search failed).
FoundNames(r) ==
  IF r.status = 200 THEN [i \in 1..Len(r.list) |-> r.list[i].filename] ELSE <<>>

\* C9: in every reachable state of the filesystem variant, each request gets
\* from the relational variant, holding the same records and serving the same
\* session, the same outcome and leaves it holding the same records.
C9_BackendsEquivalent ==
  "fs" \in deployed =>
    \A c \in Sessions, tok \in Tokens :
      LET s == sess["fs"][c]
          T == tableOf(files)
      IN /\ \A lang \in Languages, code \in Codes :
              SameOutcome(fsPostSubmit(files, s, c, tok, now, lang, code),
                          dbPostSubmit(T, s, c, tok, now, lang, code))
         /\ \A f \in DOMAIN files, lang \in EditLanguages, code \in Codes :
              SameOutcome(fsPostSaveEdit(files, s, c, tok, f, lang, code),
                          dbPostEdit(T, s, c, tok, f, lang, code))
         /\ \A f \in DOMAIN files :
              SameOutcome(fsPostDelete(files, s, c, tok, f),
                          dbPostDelete(T, s, c, tok, f))
         /\ \A q \in Queries, lang \in LangFilters :
              /\ fsSearch(files, q, lang).status = dbSearch(T, q, lang).status
              /\ FoundNames(fsSearch(files, q, lang)) = FoundNames(dbSearch(T, q, lang))

\* The records a search for q with language filter l has to return.
Expected(v, q, l) ==
  {r \in Records(v) :
     /\ \/ ~Truthy(q)
        \/ ~IsAbsent(r.code) /\ includes(toLowerCase(r.code), toLowerCase(q))
        \/ includes(toLowerCase(r.filename), toLowerCase(q))
     /\ \/ ~Truthy(l)
        \/ ~IsAbsent(r.language) /\ toLowerCase(r.language) = toLowerCase(l)}

\* C10: in every reachable state, for every query and language filter, the
\* search answers with exactly the matching records, each once.
C10_SearchCorrect ==
  \A v \in deployed, q \in Queries, l \in LangFilters :
    LET r == IF v = "fs" THEN fsSearch(files, q, l) ELSE dbSearch(rows, q, l)
    IN /\ r.status = 200
       /\ {r.list[i].filename : i \in 1..Len(r.list)}
            = {x.filename : x \in Expected(v, q, l)}
       /\ Len(r.list) = Cardinality(Expected(v, q, l))

\* The request was stopped by requireAuth: the answer is the redirect to
\* /login, which carries nothing of the store, and the store is as it was.
Refused(o, store) == o.res = Redirect("/login") /\ o.store = store

\* C11: in every reachable state, a session that is not authenticated gets
\* from the admin listing, the edit page, an update and a delete, whatever the
\* token and the parameters, the redirect to /login and nothing else, and the
\* store is unchanged.
C11_AuthGate ==
  \A c \in Sessions, tok \in Tokens, file \in FileArgs, lang \in EditLanguages,
     code \in Codes :
    /\ ("fs" \in deployed /\ ~sess["fs"][c].authenticated) =>
         /\ Refused(fsAdmin(c), files)
         /\ Refused(fsEdit(c, file), files)
         /\ Refused(fsUpdate(c, tok, file, lang, code), files)
         /\ Refused(fsDelete(c, tok, file), files)
    /\ ("db" \in deployed /\ ~sess["db"][c].authenticated) =>
         /\ Refused(dbAdmin(c), rows)
         /\ Refused(dbEdit(c, file), rows)
         /\ Refused(dbUpdate(c, tok, file, lang, code), rows)
         /\ Refused(dbDelete(c, tok, file), rows)

\* A session that is not authenticated has just asked for an admin route
\* while the store held a record, and was redirected to /login.
C11_Witness ==
  \E v \in deployed, c \in Sessions :
    /\ route \in {"GET /admin", "GET /edit", "POST /save-edit, POST /edit", "POST /delete"}
    /\ ~sess[v][c].authenticated
    /\ res[v] = Redirect("/login")
    /\ Filenames(v) # {}

\* C12: a step sets a session's authenticated flag only if it is a POST /login
\* of that session with an accepted token and the admin password; a login
\* with any other password leaves the flag as it was, and no step clears or
\* sets it otherwise.
C12_FlagOnlyByLogin ==
  [][\A v \in deployed, c \in Sessions :
       /\ (sess'[v][c].authenticated # sess[v][c].authenticated) =>
            /\ sess'[v][c].authenticated
            /\ \E tok \in Tokens :
                 csrfValid(sess[v][c], c, tok) /\ Login(c, tok, adminPassword)
       /\ (\E tok \in Tokens, password \in Passwords \ {adminPassword} :
             Login(c, tok, password)) =>
            sess'[v][c].authenticated = sess[v][c].authenticated]_vars

\* A login with the admin password has just set the flag.
C12_Witness ==
  \E v \in deployed, c \in Sessions :
    route = "POST /login" /\ res[v] = Redirect("/admin") /\ sess[v][c].authenticated

\* C13: a mutating request on a token-protected route (create, delete, the
\* relational update, login) that reaches the token check with a missing or
\* non-matching token is answered 403 'CSRF token validation failed'.
C13_TokenFailureResponse ==
  [][\A c \in Sessions, tok \in Tokens :
       \A v \in deployed :
         ~csrfValid(sess[v][c], c, tok) =>
           /\ (\/ \E lang \in Languages, code \in Codes : Submit(c, tok, lang, code)
               \/ \E password \in Passwords : Login(c, tok, password))
                => res'[v] = Send(403, "CSRF token validation failed")
           /\ ( /\ sess[v][c].authenticated
                /\ \/ \E queryFile \in FileArgs, bodyFile \in FileArgs :
                        Delete(c, tok, queryFile, bodyFile)
                   \/ /\ v = "db"
                      /\ \E file \in FileArgs, lang \in EditLanguages, code \in Codes :
                           Update(c, tok, file, lang, code) )
                => res'[v] = Send(403, "CSRF token validation failed")]_vars

\* The answer of a token-protected route to a request whose token it rejects.
TokenRejected == routeError("EBADCSRFTOKEN")

\* The store and session that a mutating request of session c with token tok
\* leaves behind, for each such request (create, login, delete, update).
fsAfterMutation(c, tok) ==
  LET left(o) == <<o.store, o.sess>>
  IN {left(fsCreate(c, tok, lang, code)) : lang \in Languages, code \in Codes}
     \cup {<<files, postLogin(sess["fs"][c], c, tok, password).sess>> :
             password \in Passwords}
     \cup {left(fsDelete(c, tok, file)) : file \in FileArgs}
     \cup {left(fsUpdate(c, tok, file, lang, code)) :
             file \in FileArgs, lang \in EditLanguages, code \in Codes}
dbAfterMutation(c, tok) ==
  LET left(o) == <<o.store, o.sess>>
  IN {left(dbCreate(c, tok, lang, code)) : lang \in Languages, code \in Codes}
     \cup {<<rows, postLogin(sess["db"][c], c, tok, password).sess>> :
             password \in Passwords}
     \cup {left(dbDelete(c, tok, file)) : file \in FileArgs}
     \cup {left(dbUpdate(c, tok, file, lang, code)) :
             file \in FileArgs, lang \in EditLanguages, code \in Codes}

C15_PublicCreate ==
  \A c \in Sessions, tok \in Tokens, lang \in Languages, code \in Codes :
    /\ "fs" \in deployed =>
         LET o == fsCreate(c, tok, lang, code)
         IN IF csrfValid(sess["fs"][c], c, tok)
            THEN o.res.status = 200 /\ fsName(now) \in DOMAIN o.store
            ELSE o.res.status = 403 /\ o.store = files
    /\ "db" \in deployed =>
         LET o == dbCreate(c, tok, lang, code)
         IN IF csrfValid(sess["db"][c], c, tok)
            THEN /\ o.res.status \notin {302, 403}
                 /\ dbName(now) \notin DOMAIN rows =>
                      o.res.status = 200 /\ dbName(now) \in DOMAIN o.store
            ELSE o.res.status = 403 /\ o.store = rows

\* A session that is not authenticated has just created a record.
C15_Witness ==
  \E v \in deployed, c \in Sessions :
    /\ route = "POST /submit"
    /\ res[v] = Send(200, "Snippet saved!")
    /\ ~sess[v][c].authenticated
    /\ nameOf(v, now) \in Filenames(v)

\* C16: a create that passes the token check and has no snippet field is
\* answered with the validation error 400 and stores nothing; one whose code
\* is the empty text is answered 200 and stored (its filename being free).
C16_AbsentCodeRejected ==
  [][\A c \in Sessions, tok \in Tokens, lang \in Languages, code \in Codes :
       Submit(c, tok, lang, code) =>
         \A v \in deployed :
           csrfValid(sess[v][c], c, tok) =>
             /\ IsAbsent(code) =>
                  res'[v].status = 400 /\ files' = files /\ rows' = rows
             /\ (code = Empty /\ nameOf(v, now) \notin Filenames(v)) =>
                  /\ res'[v].status = 200
                  /\ nameOf(v, now) \in (IF v = "fs" THEN DOMAIN files' ELSE DOMAIN rows')]_vars

\* C17: a create answered with success names the new record: the body of the
\* response contains the filename generated for it, whether or not the
\* caller asked for JSON.
C17_CreateReturnsFilename ==
  [][\A c \in Sessions, tok \in Tokens, lang \in Languages, code \in Codes :
       Submit(c, tok, lang, code) =>
         \A v \in deployed :
           res'[v] = Send(200, "Snippet saved!") =>
             \A acceptsJson \in BOOLEAN :
               includes(submitBody(v, acceptsJson), nameOf(v, now))]_vars

\* C18: a delete that passes the session and token guards and names a stored
\* record, in the query string or in the body, removes that record; it is
\* answered as having no filename (400) only if neither form is present.
C18_DeleteBothForms ==
  [][\A c \in Sessions, tok \in Tokens, queryFile \in FileArgs, bodyFile \in FileArgs :
       ( /\ queryFile = bodyFile \/ NoFile \in {queryFile, bodyFile}
         /\ Delete(c, tok, queryFile, bodyFile) ) =>
         \A v \in deployed :
           Authorized(v, c, tok) =>
             /\ \A k \in {queryFile, bodyFile} \ {NoFile} :
                  nameOf(v, k) \in Filenames(v) =>
                    nameOf(v, k) \notin (IF v = "fs" THEN DOMAIN files' ELSE DOMAIN rows')
             /\ res'[v].status = 400 <=> {queryFile, bodyFile} = {NoFile}]_vars

\* C19: in every reachable state, an update or a delete whose filename is
\* absent or empty leaves the store unchanged, and once it has passed the
\* route's guards it is answered 400.
C19_MissingFilename ==
  \A c \in Sessions, tok \in Tokens, name \in {Absent, Empty},
     lang \in EditLanguages, code \in Codes :
    /\ "fs" \in deployed =>
         LET s == sess["fs"][c]
             u == fsPostSaveEdit(files, s, c, tok, name, lang, code)
             d == fsPostDelete(files, s, c, tok, name)
         IN /\ u.store = files /\ d.store = files
            /\ s.authenticated => u.res.status = 400
            /\ Authorized("fs", c, tok) => d.res.status = 400
    /\ "db" \in deployed =>
         LET s == sess["db"][c]
             u == dbPostEdit(rows, s, c, tok, name, lang, code)
             d == dbPostDelete(rows, s, c, tok, name)
         IN /\ u.store = rows /\ d.store = rows
            /\ Authorized("db", c, tok) => u.res.status = 400 /\ d.res.status = 400

\* An update without filename has just been answered 400 while the store
\* held a record.
C19_Witness ==
  \E v \in deployed :
    /\ route = "POST /save-edit, POST /edit"
    /\ res[v].status = 400
    /\ Filenames(v) # {}

\* The clock value whose generated name is the filename of a record.
clockOf(v, filename) == CHOOSE t \in 1..MaxClock : nameOf(v, t) = filename

\* The records of a list are in order of strictly descending creation clock.
NewestFirst(v, list) ==
  \A i \in 1..Len(list), j \in 1..Len(list) :
    i < j => clockOf(v, list[i].filename) > clockOf(v, list[j].filename)

C21_DefaultLanguage ==
  \A c \in Sessions, tok \in Tokens, lang \in {Absent, Empty}, code \in Codes :
    /\ ("fs" \in deployed /\ csrfValid(sess["fs"][c], c, tok)) =>
         LET o == fsCreate(c, tok, lang, code)
             f == nameOf("fs", now)
         IN /\ o.res.status = 200
            /\ f \in DOMAIN o.store
            /\ JSONparse(o.store[f]).language = plaintext
    /\ ("db" \in deployed /\ csrfValid(sess["db"][c], c, tok)) =>
         LET o == dbCreate(c, tok, lang, code)
             f == nameOf("db", now)
         IN o.res.status = 200 =>
              f \in DOMAIN o.store /\ o.store[f].language = plaintext

\* A create has just stored a record whose language is plaintext: no request
\* of the model sends that language itself.
C21_Witness ==
  \E v \in deployed :
    /\ route = "POST /submit"
    /\ res[v].status = 200
    /\ \E r \in Records(v) : r.filename = nameOf(v, now) /\ r.language = plaintext

\* The answer of a variant's search in the current state.
searchOf(v, q, l) == IF v = "fs" THEN fsSearch(files, q, l) ELSE dbSearch(rows, q, l)

\* C22: in every reachable state, a record that is stored (created and not
\* deleted since) is in the result of every search whose query is contained in
\* its code; a filename that is not stored is in no search result, and a
\* delete of it that passes the guards is answered 404.
C22_VisibleUntilDeleted ==
  \A v \in deployed :
    /\ \A r \in Records(v), q \in Queries \ {Absent} :
         (~IsAbsent(r.code) /\ includes(r.code, q)) =>
           LET a == searchOf(v, q, Absent)
           IN /\ a.status = 200
              /\ \E i \in 1..Len(a.list) : a.list[i].filename = r.filename
    /\ \A k \in 1..MaxClock :
         nameOf(v, k) \notin Filenames(v) =>
           /\ \A q \in Queries, l \in LangFilters :
                LET a == searchOf(v, q, l)
                IN a.status = 200 =>
                     \A i \in 1..Len(a.list) : a.list[i].filename # nameOf(v, k)
           /\ \A c \in Sessions, tok \in Tokens :
                Authorized(v, c, tok) =>
                  (IF v = "fs" THEN fsDelete(c, tok, k) ELSE dbDelete(c, tok, k)).res.status
                    = 404

\* The position of the record named f in a list.
indexOf(list, f) == CHOOSE i \in 1..Len(list) : list[i].filename = f

\* Sorting the list by the key gives an ordered arrangement of the same
\* records, sorting that again changes nothing, and records the key does not
\* tell apart stay in the order they had in the list.
SortsStably(list, sort) ==
  LET once == sortSnippets(list, sort)
  IN /\ Len(once) = Len(list)
     /\ {once[i] : i \in 1..Len(once)} = {list[i] : i \in 1..Len(list)}
     /\ \A i \in 1..Len(once), j \in 1..Len(once) :
          i < j => compareSnippets(sort, once[i], once[j]) <= 0
     /\ sortSnippets(once, sort) = once
     /\ \A i \in 1..Len(list), j \in 1..Len(list) :
          (i < j /\ compareSnippets(sort, list[i], list[j]) = 0) =>
            indexOf(once, list[i].filename) < indexOf(once, list[j].filename)

C24_Lifecycle ==
  [][\A c \in Sessions, tok \in Tokens :
       ( \/ \E file \in FileArgs, lang \in EditLanguages, code \in Codes :
              Update(c, tok, file, lang, code)
         \/ \E queryFile \in FileArgs, bodyFile \in FileArgs :
              Delete(c, tok, queryFile, bodyFile) )
       => /\ DOMAIN files' \subseteq DOMAIN files
          /\ DOMAIN rows' \subseteq DOMAIN rows]_vars

\* After a write, a read of any filename gives what it gave before the write
\* or exactly the record the write wrote; never two records, never a blend.
fsWroteWhole(after, f, written) ==
  LET r == fsRead(after, f)
  IN Cardinality(r) <= 1 /\ (r = fsRead(files, f) \/ r = {written})
dbWroteWhole(after, f, written) ==
  LET r == dbRead(after, f)
  IN Cardinality(r) <= 1 /\ (r = dbRead(rows, f) \/ r = {written})

C26_SessionBeforeToken ==
  \A c \in Sessions, tok \in Tokens, file \in FileArgs :
    /\ "fs" \in deployed =>
         LET s == sess["fs"][c]
             d == fsDelete(c, tok, file)
         IN /\ ~s.authenticated =>
                 d = [store |-> files, sess |-> s, res |-> Redirect("/login")]
            /\ (s.authenticated /\ ~csrfValid(s, c, tok)) =>
                 d.res.status = 403 /\ d.store = files
    /\ "db" \in deployed =>
         LET s == sess["db"][c]
             d == dbDelete(c, tok, file)
         IN /\ ~s.authenticated =>
                 /\ d = [store |-> rows, sess |-> s, res |-> Redirect("/login")]
                 /\ \A lang \in EditLanguages, code \in Codes :
                      dbUpdate(c, tok, file, lang, code) = d
            /\ (s.authenticated /\ ~csrfValid(s, c, tok)) =>
                 /\ d.res.status = 403 /\ d.store = rows
                 /\ \A lang \in EditLanguages, code \in Codes :
                      LET u == dbUpdate(c, tok, file, lang, code)
                      IN u.res.status = 403 /\ u.store = rows

\* A delete of a session that is not authenticated and has no token secret,
\* so that no token of its request can verify, has just been redirected to
\* /login.
C26_Witness ==
  \E v \in deployed, c \in Sessions :
    /\ route = "POST /delete"
    /\ res[v] = Redirect("/login")
    /\ ~sess[v][c].authenticated
    /\ ~sess[v][c].csrfSecret

\* C30: every search request, whatever its query and language filter and
\* whatever records the store holds, is answered 200 with a list.
C30_SearchNeverFails ==
  [][\A c \in Sessions, q \in Queries, l \in LangFilters :
       Search(c, q, l) =>
         \A v \in deployed : res'[v] = [status |-> 200, body |-> "json"]]_vars

\* C29: in every reachable state, when two delete requests that pass the
\* guards name the same stored file and are handled one after the other (the
\* filesystem handler runs as a whole, the relational one is one DELETE
\* statement), the first is answered with success and removes the record, the
\* second is answered 404 and changes nothing, and neither is a server error.
C29_ConcurrentDeletes ==
  \A c1 \in Sessions, c2 \in Sessions, t1 \in Tokens, t2 \in Tokens,
     file \in FileArgs \ {NoFile} :
    /\ ("fs" \in deployed /\ Authorized("fs", c1, t1) /\ Authorized("fs", c2, t2)
          /\ fsName(file) \in DOMAIN files) =>
         LET first == fsDelete(c1, t1, file)
             second == fsPostDelete(first.store,
                         IF c2 = c1 THEN first.sess ELSE sess["fs"][c2],
                         c2, t2, fsName(file))
         IN /\ first.res.status = 200
            /\ first.store = [g \in DOMAIN files \ {fsName(file)} |-> files[g]]
            /\ second.res.status = 404
            /\ second.store = first.store
    /\ ("db" \in deployed /\ Authorized("db", c1, t1) /\ Authorized("db", c2, t2)
          /\ dbName(file) \in DOMAIN rows) =>
         LET first == dbDelete(c1, t1, file)
             second == dbPostDelete(first.store,
                         IF c2 = c1 THEN first.sess ELSE sess["db"][c2],
                         c2, t2, dbName(file))
         IN /\ first.res.status = 200
            /\ first.store = [g \in DOMAIN rows \ {dbName(file)} |-> rows[g]]
            /\ second.res.status = 404
            /\ second.store = first.store

\* A delete of an authenticated session has just succeeded, and the session
\* can send further deletes for the record that is still stored.
C29_Witness ==
  \E v \in deployed, c \in Sessions :
    /\ route = "POST /delete"
    /\ res[v].status = 200
    /\ Authorized(v, c, c)
    /\ Filenames(v) # {}

\* C27: a create or delete request whose storage call fails is answered 500
\* and leaves the store as it was: no record, whole or partial, is added.
C27_FailedRequestLeavesNothing ==
  [][\A c \in Sessions, tok \in Tokens :
       /\ (\E lang \in Languages, code \in Codes, fault \in Faults :
             SubmitFailing(c, tok, lang, code, fault)) =>
            \A v \in deployed :
              csrfValid(sess[v][c], c, tok) =>
                res'[v].status = 500 /\ files' = files /\ rows' = rows
       /\ \A file \in FileArgs \ {NoFile} :
            DeleteFailing(c, tok, file) =>
              \A v \in deployed :
                (Authorized(v, c, tok) /\ nameOf(v, file) \in Filenames(v)) =>
                  res'[v].status = 500 /\ files' = files /\ rows' = rows]_vars

\* s without the suffix p, when it ends with it.
withoutSuffix(s, p) ==
  IF endsWith(s, p) THEN SubSeq(s, 1, Len(s) - Len(p)) ELSE s

\* C28: in every reachable state, the timestamp member of each stored record
\* is the record's filename without the '.json' suffix.
C28_TimestampIsFilename ==
  /\ "fs" \in deployed =>
       \A f \in DOMAIN files :
         isDocument(files[f]) =>
           JSONparse(files[f]).timestamp = withoutSuffix(f, DotJson)
  /\ "db" \in deployed =>
       \A f \in DOMAIN rows : rows[f].timestamp = withoutSuffix(f, DotJson)

====
